---- MODULE Spec2Model ----
(***************************************************************************)
(* Terminal Tetris (src/tetris_terminal.py): the game-state engine         *)
(* (rotate, new_piece, collides, merge, clear_lines, lock_piece,           *)
(* drop_distance) and the control loop main_loop.                          *)
(*                                                                         *)
(* A matrix (a shape or the board) is a sequence of rows, each a sequence  *)
(* of 0/1; the Python cell m[r][c] (0-based) is m[r + 1][c + 1] here.      *)
(* Time is counted in units of 25 ms, the poll timeout of                  *)
(* stdscr.timeout(25); 0.05 s is two units.                                *)
(***************************************************************************)
EXTENDS Integers, Sequences, FiniteSets, TLC

(***************************************************************************)
(* Program constants.                                                      *)
(***************************************************************************)
BOARD_W == 10
BOARD_H == 20
\* MIN_DELAY = 0.05 (seconds), in units of 25 ms
MIN_DELAY == 2
\* the literal 0.05 of `delay - 0.05` and `delay += 0.05`, in units of 25 ms
DELAY_STEP == 2

SHAPES ==
  << << <<1, 1, 1, 1>> >>,
     << <<1, 1>>, <<1, 1>> >>,
     << <<0, 1, 0>>, <<1, 1, 1>> >>,
     << <<0, 1, 1>>, <<1, 1, 0>> >>,
     << <<1, 1, 0>>, <<0, 1, 1>> >>,
     << <<1, 0, 0>>, <<1, 1, 1>> >>,
     << <<0, 0, 1>>, <<1, 1, 1>> >> >>

\* (100, 300, 700, 1500), indexed by cleared - 1 in the code
SCORE_TABLE == <<100, 300, 700, 1500>>

\* the keys main_loop tells apart; "other" is any other value of getch(),
\* -1 (no key within the timeout) included
KEYS == {"LEFT", "RIGHT", "UP", "DOWN", "SPACE", "q", "p", "+", "=", "-", "other"}

(***************************************************************************)
(* Bounds of the model.                                                    *)
(***************************************************************************)
\* the most free rows above a stack of rows a run starts from
MaxFree == 1
\* the largest --delay argument, and the delay above which '-' is not pressed
MaxDelay == 4
\* the longest time between two readings of the clock that is told apart
MaxElapsed == 4
\* the most non-empty rows of a board clear_lines is called on
MaxRows == 3
\* how far from the top and from the bottom row the piece of a collides call is
MaxEdge == 2
\* the most rows and the most columns of a matrix rotate is called on, the
\* catalog shapes apart
MaxSide == 3

(***************************************************************************)
(* Helpers on matrices.                                                    *)
(***************************************************************************)
Min(a, b) == IF a < b THEN a ELSE b
Max(a, b) == IF a > b THEN a ELSE b

EmptyRow == [c \in 1..BOARD_W |-> 0]
EmptyBoard == [r \in 1..BOARD_H |-> EmptyRow]

\* the (r, c) of a shape with a truthy value: the cells the loops
\* `for r, row in enumerate(shape): for c, val in enumerate(row): if val`
\* act on
Cells(shape) ==
  {rc \in (0..Len(shape) - 1) \X (0..Len(shape[1]) - 1) : shape[rc[1] + 1][rc[2] + 1] # 0}

\* all(row)
AllTruthy(row) == \A c \in 1..Len(row) : row[c] # 0

\* a Python list index: a negative index counts from the end
PyIndex(i, n) == IF i < 0 THEN i + n ELSE i

(***************************************************************************)
(* The engine.                                                             *)
(***************************************************************************)
\* A faulty rotate: the quarter turn the other way, zip(*shape)[::-1].
rotate_Left(shape) ==
  LET R == Len(shape)
      C == Len(shape[1])
  IN  [i \in 1..C |-> [j \in 1..R |-> shape[j][C + 1 - i]]]

\* rotate(shape): [list(row) for row in zip(*shape[::-1])]
rotate(shape) ==
  LET R == Len(shape)
      C == Len(shape[1])
  IN  [i \in 1..C |-> [j \in 1..R |-> shape[R + 1 - j][i]]]

\* new_piece(), with the shape random.choice picked
new_piece(s) ==
  [shape |-> SHAPES[s],
   x |-> BOARD_W \div 2 - Len(SHAPES[s][1]) \div 2,
   y |-> -1]

\* An optional argument is a set: {} is None, {v} is the value v.
None == {}
Some(v) == {v}
OrElse(opt, dflt) == IF opt = None THEN dflt ELSE CHOOSE v \in opt : TRUE

\* A faulty collides: `x or piece.x` in place of `piece.x if x is None else x`,
\* so that x = 0 is taken for an argument left out.
collides_Falsy(b, p, x, y, shape) ==
  LET px == IF x = None \/ x = Some(0) THEN p.x ELSE CHOOSE v \in x : TRUE
      py == OrElse(y, p.y)
      pshape == OrElse(shape, p.shape)
  IN  \E rc \in Cells(pshape) :
        LET nx == px + rc[2]
            ny == py + rc[1]
        IN  \/ nx < 0 \/ nx >= BOARD_W \/ ny >= BOARD_H
            \/ (ny >= 0 /\ b[ny + 1][nx + 1] # 0)

\* collides(board, piece, x=None, y=None, shape=None)
collides(b, p, x, y, shape) ==
  LET px == OrElse(x, p.x)
      py == OrElse(y, p.y)
      pshape == OrElse(shape, p.shape)
  IN  \E rc \in Cells(pshape) :
        LET nx == px + rc[2]
            ny == py + rc[1]
        IN  \/ nx < 0 \/ nx >= BOARD_W \/ ny >= BOARD_H
            \/ (ny >= 0 /\ b[ny + 1][nx + 1] # 0)

\* merge(board, piece): the board after the call
merge(b, p) ==
  LET hit == {<<p.y + rc[1], PyIndex(p.x + rc[2], BOARD_W)>> :
                rc \in {q \in Cells(p.shape) : p.y + q[1] >= 0}}
  IN  [r \in 1..BOARD_H |-> [c \in 1..BOARD_W |->
         IF <<r - 1, c - 1>> \in hit THEN 1 ELSE b[r][c]]]

\* A faulty clear_lines: the empty rows are appended below the kept rows.
clear_lines_Bottom(b) ==
  LET kept == SelectSeq(b, LAMBDA row : ~AllTruthy(row))
      cleared == BOARD_H - Len(kept)
  IN  [board |-> [r \in 1..BOARD_H |-> IF r <= Len(kept) THEN kept[r] ELSE EmptyRow],
       cleared |-> cleared]

\* A faulty clear_lines: only the first full row is removed.
clear_lines_One(b) ==
  LET full == {r \in 1..BOARD_H : AllTruthy(b[r])}
      first == IF full = {} THEN 0 ELSE CHOOSE r \in full : \A q \in full : r <= q
  IN  IF full = {}
      THEN [board |-> b, cleared |-> 0]
      ELSE [board |-> [r \in 1..BOARD_H |->
                         IF r = 1 THEN EmptyRow
                         ELSE IF r <= first THEN b[r - 1]
                         ELSE b[r]],
            cleared |-> 1]

\* clear_lines(board): the board after the call and the value returned
clear_lines(b) ==
  LET kept == SelectSeq(b, LAMBDA row : ~AllTruthy(row))
      cleared == BOARD_H - Len(kept)
  IN  [board |-> [r \in 1..BOARD_H |-> IF r <= cleared THEN EmptyRow ELSE kept[r - cleared]],
       cleared |-> cleared]

\* A faulty lock_piece: 100 points for each cleared row.
lock_piece_Linear(st, s) ==
  LET cl == clear_lines(merge(st.board, st.piece))
      np == new_piece(s)
  IN  [st EXCEPT !.board = cl.board,
                 !.lines = st.lines + cl.cleared,
                 !.score = st.score + 100 * cl.cleared,
                 !.piece = np,
                 !.over = IF collides(cl.board, np, None, None, None) THEN TRUE ELSE st.over,
                 !.locks = st.locks + 1]

\* A faulty lock_piece: the new piece is tested against the board before
\* clear_lines has removed the full rows.
lock_piece_EarlyTest(st, s) ==
  LET merged == merge(st.board, st.piece)
      cl == clear_lines(merged)
      np == new_piece(s)
  IN  [st EXCEPT !.board = cl.board,
                 !.lines = st.lines + cl.cleared,
                 !.score = st.score + (IF cl.cleared # 0 THEN SCORE_TABLE[cl.cleared] ELSE 0),
                 !.piece = np,
                 !.over = IF collides(merged, np, None, None, None) THEN TRUE ELSE st.over,
                 !.locks = st.locks + 1]

\* A faulty lock_piece: `state.over = collides(state.board, state.piece)`.
lock_piece_OverAssigned(st, s) ==
  LET cl == clear_lines(merge(st.board, st.piece))
      np == new_piece(s)
  IN  [st EXCEPT !.board = cl.board,
                 !.lines = st.lines + cl.cleared,
                 !.score = st.score + (IF cl.cleared # 0 THEN SCORE_TABLE[cl.cleared] ELSE 0),
                 !.piece = np,
                 !.over = collides(cl.board, np, None, None, None),
                 !.locks = st.locks + 1]

\* lock_piece(state), with the shape new_piece picks. locks counts the calls;
\* raised is the IndexError of (100, 300, 700, 1500)[cleared - 1], which
\* leaves lines updated and the rest of the call undone.
lock_piece(st, s) ==
  LET merged == merge(st.board, st.piece)
      cl == clear_lines(merged)
      cleared == cl.cleared
      np == new_piece(s)
  IN  IF cleared > Len(SCORE_TABLE)
      THEN [st EXCEPT !.board = cl.board,
                      !.lines = st.lines + cleared,
                      !.locks = st.locks + 1,
                      !.raised = TRUE]
      ELSE [st EXCEPT !.board = cl.board,
                      !.lines = st.lines + cleared,
                      !.score = st.score + (IF cleared # 0 THEN SCORE_TABLE[cleared] ELSE 0),
                      !.piece = np,
                      !.over = IF collides(cl.board, np, None, None, None) THEN TRUE ELSE st.over,
                      !.locks = st.locks + 1]

\* drop_distance(board, piece): the loop `while not collides(..., y=piece.y + d + 1): d += 1`
RECURSIVE drop_probe(_, _, _)
drop_probe(b, p, d) ==
  IF ~collides(b, p, None, Some(p.y + d + 1), None) THEN drop_probe(b, p, d + 1) ELSE d

\* A faulty drop_distance: the lowest offset at which the piece fits,
\* whatever is in the way.
drop_distance_Deepest(b, p) ==
  LET free == {e \in 0..(BOARD_H + 1) : ~collides(b, p, None, Some(p.y + e), None)}
  IN  IF free = {} THEN 0 ELSE CHOOSE e \in free : \A f \in free : f <= e

\* A faulty drop_distance: the first offset at which the piece collides.
drop_distance_OffByOne(b, p) == drop_probe(b, p, 0) + 1

drop_distance(b, p) == drop_probe(b, p, 0)


(***************************************************************************)
(* The state of main_loop.                                                 *)
(***************************************************************************)
VARIABLES
  state,    \* the GameState object: [board, piece: [shape, x, y], score, lines,
            \* over, paused], and the history of lock_piece: [locks, raised]
  delay,    \* delay
  since,    \* now - tick at the last reading of the clock
  key,      \* key, from getch() until the end of the input handling
  pc,       \* where main_loop is: "poll", "gravity", "wait", "exited", "crashed"
  run,      \* the bounds of this run: [limit, tune]
  atOver,   \* history: the GameState as it was when lock_piece set over
  call      \* a call of one function of the engine: its arguments and its result

vars == <<state, delay, since, key, pc, run, atOver, call>>

NoCall == [fn |-> "none"]

\* the indices random.choice(SHAPES) picks from
ShapeIds == 1..Len(SHAPES)

\* the shapes random.choice may return in a call that is made (made) or not
Picks(made) == IF made THEN ShapeIds ELSE {1}

\* A stack of n rows built by hard-dropping 2n I pieces at x = 0 and x = 6:
\* every row of it lacks the two middle columns only. With pre, an upright I
\* piece was dropped into column 5 before the fifth row was laid.
Stack(n, pre) ==
  [r \in 1..BOARD_H |-> [c \in 1..BOARD_W |->
     IF r > BOARD_H - n /\ c - 1 \notin {4, 5} THEN 1
     ELSE IF pre /\ r > BOARD_H - 4 /\ c - 1 = 5 THEN 1
     ELSE 0]]

\* The runs that are followed: from the empty board (the state main_loop
\* starts in) and from the stacks with at most MaxFree free rows. A run is
\* followed up to the pass in which it first calls lock_piece, that pass
\* included (limit). The delay keys are pressed in the runs from the full
\* stack, which start with any delay (tune); the other runs keep the delay
\* of --delay 0.025.
Starts ==
  {[rows |-> 0, pre |-> FALSE, limit |-> 1, tune |-> FALSE]}
  \cup {[rows |-> n, pre |-> p, limit |-> 1, tune |-> FALSE] :
          n \in (BOARD_H - MaxFree)..BOARD_H, p \in BOOLEAN}
  \cup {[rows |-> BOARD_H, pre |-> FALSE, limit |-> 1, tune |-> TRUE]}

\* GameState(board=[[0] * BOARD_W for _ in range(BOARD_H)], piece=new_piece()),
\* delay = start_delay, tick = time.time(): the state at the first getch().
\* The other start states are the game after a stack was built without
\* losing: nothing was cleared, and the piece in play does not collide.
Init ==
  \E st \in Starts, s \in ShapeIds :
    /\ state = [board |-> Stack(st.rows, st.pre), piece |-> new_piece(s),
                score |-> 0, lines |-> 0, over |-> FALSE, paused |-> FALSE,
                locks |-> 0, raised |-> FALSE]
    /\ ~collides(state.board, state.piece, None, None, None)
    /\ run = [limit |-> st.limit, tune |-> st.tune]
    /\ delay \in IF st.tune THEN 1..MaxDelay ELSE {1}
    /\ since = 0
    /\ key = "none"
    /\ pc = "poll"
    /\ atOver = [set |-> FALSE]
    /\ call = NoCall

(***************************************************************************)
(* main_loop, lines 152-157: the pause key and the delay keys.             *)
(***************************************************************************)
Toggle(st, k) == IF k = "p" THEN [st EXCEPT !.paused = ~st.paused] ELSE st

\* Faulty delay keys: `delay - 0.05` without max(MIN_DELAY, ...).
Adjust_NoFloor(dl, k) ==
  IF k \in {"+", "="} THEN dl - DELAY_STEP
  ELSE IF k = "-" THEN dl + DELAY_STEP
  ELSE dl

Adjust(dl, k) ==
  IF k \in {"+", "="} THEN Max(MIN_DELAY, dl - DELAY_STEP)
  ELSE IF k = "-" THEN dl + DELAY_STEP
  ELSE dl

\* Faulty movement keys: the rotation is committed without the collision test.
Move_Unchecked(st, k, s) ==
  LET b == st.board
      p == st.piece
  IN  IF k = "LEFT" /\ ~collides(b, p, Some(p.x - 1), None, None)
        THEN [st EXCEPT !.piece.x = p.x - 1]
      ELSE IF k = "RIGHT" /\ ~collides(b, p, Some(p.x + 1), None, None)
        THEN [st EXCEPT !.piece.x = p.x + 1]
      ELSE IF k = "UP"
        THEN [st EXCEPT !.piece.shape = rotate(p.shape)]
      ELSE IF k = "DOWN" /\ ~collides(b, p, None, Some(p.y + 1), None)
        THEN [st EXCEPT !.piece.y = p.y + 1]
      ELSE IF k = "SPACE"
        THEN lock_piece([st EXCEPT !.piece.y = p.y + drop_distance(b, p)], s)
      ELSE st

\* Faulty movement keys: a soft drop scores a point.
Move_SoftDropScores(st, k, s) ==
  LET b == st.board
      p == st.piece
  IN  IF k = "LEFT" /\ ~collides(b, p, Some(p.x - 1), None, None)
        THEN [st EXCEPT !.piece.x = p.x - 1]
      ELSE IF k = "RIGHT" /\ ~collides(b, p, Some(p.x + 1), None, None)
        THEN [st EXCEPT !.piece.x = p.x + 1]
      ELSE IF k = "UP"
        THEN LET rotated == rotate(p.shape)
             IN  IF ~collides(b, p, None, None, Some(rotated))
                 THEN [st EXCEPT !.piece.shape = rotated]
                 ELSE st
      ELSE IF k = "DOWN" /\ ~collides(b, p, None, Some(p.y + 1), None)
        THEN [st EXCEPT !.piece.y = p.y + 1, !.score = st.score + 1]
      ELSE IF k = "SPACE"
        THEN lock_piece([st EXCEPT !.piece.y = p.y + drop_distance(b, p)], s)
      ELSE st

\* Faulty movement keys: the hard drop locks the piece where it is.
Move_NoDrop(st, k, s) ==
  LET b == st.board
      p == st.piece
  IN  IF k = "LEFT" /\ ~collides(b, p, Some(p.x - 1), None, None)
        THEN [st EXCEPT !.piece.x = p.x - 1]
      ELSE IF k = "RIGHT" /\ ~collides(b, p, Some(p.x + 1), None, None)
        THEN [st EXCEPT !.piece.x = p.x + 1]
      ELSE IF k = "UP"
        THEN LET rotated == rotate(p.shape)
             IN  IF ~collides(b, p, None, None, Some(rotated))
                 THEN [st EXCEPT !.piece.shape = rotated]
                 ELSE st
      ELSE IF k = "DOWN" /\ ~collides(b, p, None, Some(p.y + 1), None)
        THEN [st EXCEPT !.piece.y = p.y + 1]
      ELSE IF k = "SPACE"
        THEN lock_piece(st, s)
      ELSE st

\* Faulty movement keys: the move to the left is made without the collision test.
Move_LeftUnchecked(st, k, s) ==
  LET b == st.board
      p == st.piece
  IN  IF k = "LEFT"
        THEN [st EXCEPT !.piece.x = p.x - 1]
      ELSE IF k = "RIGHT" /\ ~collides(b, p, Some(p.x + 1), None, None)
        THEN [st EXCEPT !.piece.x = p.x + 1]
      ELSE IF k = "UP"
        THEN LET rotated == rotate(p.shape)
             IN  IF ~collides(b, p, None, None, Some(rotated))
                 THEN [st EXCEPT !.piece.shape = rotated]
                 ELSE st
      ELSE IF k = "DOWN" /\ ~collides(b, p, None, Some(p.y + 1), None)
        THEN [st EXCEPT !.piece.y = p.y + 1]
      ELSE IF k = "SPACE"
        THEN lock_piece([st EXCEPT !.piece.y = p.y + drop_distance(b, p)], s)
      ELSE st

\* Faulty movement keys: a rotation lifts the piece by one row.
Move_Lift(st, k, s) ==
  LET b == st.board
      p == st.piece
  IN  IF k = "LEFT" /\ ~collides(b, p, Some(p.x - 1), None, None)
        THEN [st EXCEPT !.piece.x = p.x - 1]
      ELSE IF k = "RIGHT" /\ ~collides(b, p, Some(p.x + 1), None, None)
        THEN [st EXCEPT !.piece.x = p.x + 1]
      ELSE IF k = "UP"
        THEN LET rotated == rotate(p.shape)
             IN  IF ~collides(b, p, None, Some(p.y - 1), Some(rotated))
                 THEN [st EXCEPT !.piece.shape = rotated, !.piece.y = p.y - 1]
                 ELSE st
      ELSE IF k = "DOWN" /\ ~collides(b, p, None, Some(p.y + 1), None)
        THEN [st EXCEPT !.piece.y = p.y + 1]
      ELSE IF k = "SPACE"
        THEN lock_piece([st EXCEPT !.piece.y = p.y + drop_distance(b, p)], s)
      ELSE st

\* main_loop, lines 160-172: the movement keys
Move(st, k, s) ==
  LET b == st.board
      p == st.piece
  IN  IF k = "LEFT" /\ ~collides(b, p, Some(p.x - 1), None, None)
        THEN [st EXCEPT !.piece.x = p.x - 1]
      ELSE IF k = "RIGHT" /\ ~collides(b, p, Some(p.x + 1), None, None)
        THEN [st EXCEPT !.piece.x = p.x + 1]
      ELSE IF k = "UP"
        THEN LET rotated == rotate(p.shape)
             IN  IF ~collides(b, p, None, None, Some(rotated))
                 THEN [st EXCEPT !.piece.shape = rotated]
                 ELSE st
      ELSE IF k = "DOWN" /\ ~collides(b, p, None, Some(p.y + 1), None)
        THEN [st EXCEPT !.piece.y = p.y + 1]
      ELSE IF k = "SPACE"
        THEN lock_piece([st EXCEPT !.piece.y = p.y + drop_distance(b, p)], s)
      ELSE st

\* A faulty input handling: the movement keys are not under `if not state.paused:`.
Input_Unpaused(st, k, s) == Move(st, k, s)

\* main_loop, lines 159-172: `if not state.paused:` and the movement keys
Input(st, k, s) == IF st.paused THEN st ELSE Move(st, k, s)

\* A faulty gravity step: `if now - tick > delay`.
Fall_Strict(st, el, dl, s) ==
  IF el > dl
  THEN IF ~collides(st.board, st.piece, None, Some(st.piece.y + 1), None)
       THEN [st EXCEPT !.piece.y = st.piece.y + 1]
       ELSE lock_piece(st, s)
  ELSE st

\* main_loop, lines 175-180: the gravity step, with el = now - tick
Fall(st, el, dl, s) ==
  IF el >= dl
  THEN IF ~collides(st.board, st.piece, None, Some(st.piece.y + 1), None)
       THEN [st EXCEPT !.piece.y = st.piece.y + 1]
       ELSE lock_piece(st, s)
  ELSE st

\* the gravity step of Fall(st, el, dl, _) calls lock_piece
FallLocks(st, el, dl) ==
  el >= dl /\ collides(st.board, st.piece, None, Some(st.piece.y + 1), None)

\* history: the GameState is kept when over is set
Remember ==
  atOver' = IF ~state.over /\ state'.over
            THEN [set |-> TRUE, state |-> state']
            ELSE atOver

\* A faulty pass: the quit key is only looked at after the gravity step, so
\* that the pass goes on as with any other key.
Poll_QuitLate ==
  /\ pc = "poll"
  /\ ~state.over
  /\ state.locks < run.limit
  /\ \E k \in KEYS :
       /\ key' = k
       /\ k \in {"+", "=", "-"} => run.tune
       /\ k = "-" => delay + DELAY_STEP <= MaxDelay
       /\ delay' = Adjust(delay, k)
       /\ \E s \in Picks(k = "SPACE" /\ ~Toggle(state, k).paused) :
            state' = Input(Toggle(state, k), k, s)
       /\ pc' = IF state'.raised THEN "crashed"
                ELSE IF state'.paused THEN (IF k = "q" THEN "exited" ELSE "poll")
                ELSE "gravity"
  /\ Remember
  /\ UNCHANGED <<since, run, call>>

\* One pass of `while not state.over` from getch() to the end of the input
\* handling (lines 147-172), and to render when the game is paused.
Poll ==
  /\ pc = "poll"
  /\ ~state.over
  /\ state.locks < run.limit
  /\ \E k \in KEYS :
       /\ key' = k
       /\ k \in {"+", "=", "-"} => run.tune
       /\ k = "-" => delay + DELAY_STEP <= MaxDelay
       /\ IF k = "q"
          THEN /\ pc' = "exited"
               /\ UNCHANGED <<state, delay>>
          ELSE /\ delay' = Adjust(delay, k)
               /\ \E s \in Picks(k = "SPACE" /\ ~Toggle(state, k).paused) :
                    state' = Input(Toggle(state, k), k, s)
               /\ pc' = IF state'.raised THEN "crashed"
                        ELSE IF state'.paused THEN "poll"
                        ELSE "gravity"
  /\ Remember
  /\ UNCHANGED <<since, run, call>>

\* The rest of the pass when the game is not paused (lines 174-182): the
\* clock is read, the gravity step is taken when due, the frame is rendered.
Gravity ==
  /\ pc = "gravity"
  /\ \E el \in since..Max(since, MaxElapsed) :
       /\ \E s \in Picks(FallLocks(state, el, delay)) :
            state' = Fall(state, el, delay, s)
       /\ since' = IF el >= delay THEN 0 ELSE el
  /\ pc' = IF state'.raised THEN "crashed" ELSE "poll"
  /\ key' = "none"
  /\ Remember
  /\ UNCHANGED <<delay, run, call>>

\* `while not state.over` ends: lines 184-187, up to the blocking getch()
GameOver ==
  /\ pc = "poll"
  /\ state.over
  /\ pc' = "wait"
  /\ UNCHANGED <<state, delay, since, key, run, atOver, call>>

\* the key that ends the blocking getch() of line 187
Acknowledge ==
  /\ pc = "wait"
  /\ pc' = "exited"
  /\ UNCHANGED <<state, delay, since, key, run, atOver, call>>

Next == Poll \/ Gravity \/ GameOver \/ Acknowledge

Spec == Init /\ [][Next]_vars

\* The pass in which the gravity step is taken: now - tick >= delay.
GravityDue ==
  /\ Gravity
  /\ \/ state'.locks = state.locks + 1
     \/ state'.piece.y = state.piece.y + 1

\* main_loop goes on: getch() returns within its timeout of 25 ms, so the
\* next pass is made (WF of Poll); the clock goes on, so that when the
\* clock is read in pass after pass, now - tick >= delay is found again and
\* again.
SpecLive ==
  /\ Init
  /\ [][Next]_vars
  /\ WF_vars(Poll)
  /\ []<>(pc = "gravity") => []<><<GravityDue>>_vars

(***************************************************************************)
(* The functions of the engine on their own: a specification draws the     *)
(* arguments and an action makes the call, keeping in `call` the arguments *)
(* and the value returned.                                                 *)
(***************************************************************************)
\* a GameState with board b and piece p, outside main_loop
Args(b, p) ==
  /\ state = [board |-> b, piece |-> p, score |-> 0, lines |-> 0, over |-> FALSE,
              paused |-> FALSE, locks |-> 0, raised |-> FALSE]
  /\ delay = 1
  /\ since = 0
  /\ key = "none"
  /\ pc = "args"
  /\ run = [limit |-> 0, tune |-> FALSE]
  /\ atOver = [set |-> FALSE]
  /\ call = NoCall

\* the rows a board is filled with: a full row, a row of a stack, a row
\* with its first cell filled
RowPatterns ==
  {[c \in 1..BOARD_W |-> 1],
   [c \in 1..BOARD_W |-> IF c - 1 \in {4, 5} THEN 0 ELSE 1],
   [c \in 1..BOARD_W |-> IF c = 1 THEN 1 ELSE 0]}

\* clear_lines is called on every board of at most MaxRows non-empty rows,
\* each a row of RowPatterns, wherever the rows are
InitClear == Args(EmptyBoard, new_piece(1))

FillRow ==
  /\ pc = "args"
  /\ Cardinality({r \in 1..BOARD_H : state.board[r] # EmptyRow}) < MaxRows
  /\ \E r \in 1..BOARD_H, row \in RowPatterns :
       /\ state.board[r] = EmptyRow
       /\ state' = [state EXCEPT !.board[r] = row]
  /\ UNCHANGED <<delay, since, key, pc, run, atOver, call>>

\* cleared = clear_lines(board): board is changed in place
CallClearLines ==
  /\ pc = "args"
  /\ LET cl == clear_lines(state.board)
     IN  /\ call' = [fn |-> "clear_lines", board |-> state.board, ret |-> cl.cleared]
         /\ state' = [state EXCEPT !.board = cl.board]
  /\ pc' = "done"
  /\ UNCHANGED <<delay, since, key, run, atOver>>

NextClear == FillRow \/ CallClearLines

SpecClear == InitClear /\ [][NextClear]_vars

\* collides is called on the empty board and on two stacks, with a piece of
\* any catalog shape in any column and in the rows within MaxEdge of the
\* top and of the bottom of the board
EdgeRows == ((0 - MaxEdge)..0) \cup ((BOARD_H - 1 - MaxEdge)..(BOARD_H - 1))

InitCollides ==
  \E b \in {EmptyBoard, Stack(BOARD_H, FALSE), Stack(BOARD_H - 3, TRUE)},
     s \in ShapeIds, x \in 0..(BOARD_W - 1), y \in EdgeRows :
    Args(b, [shape |-> SHAPES[s], x |-> x, y |-> y])

\* collides(board, piece, x, y, shape) with each argument left out, given as
\* the piece's own value, as 0 or as a candidate of main_loop; plain is
\* collides(board, piece)
CallCollides ==
  /\ pc = "args"
  /\ LET p == state.piece
     IN  \E x \in {None, Some(0), Some(p.x), Some(p.x - 1), Some(p.x + 1)},
            y \in {None, Some(0), Some(p.y), Some(p.y + 1)},
            shape \in {None, Some(p.shape), Some(rotate(p.shape))} :
           call' = [fn |-> "collides", x |-> x, y |-> y, shape |-> shape,
                    ret |-> collides(state.board, p, x, y, shape),
                    plain |-> collides(state.board, p, None, None, None)]
  /\ pc' = "done"
  /\ UNCHANGED <<state, delay, since, key, run, atOver>>

NextCollides == CallCollides

SpecCollides == InitCollides /\ [][NextCollides]_vars

\* rotate is called four times in a row, `shape = rotate(shape)`, on every
\* catalog shape and on every 0/1 matrix of at most MaxSide rows and columns
Matrices(n) == UNION {[1..R -> [1..C -> {0, 1}]] : R \in 1..n, C \in 1..n}

InitRotate ==
  \E shape \in Matrices(MaxSide) \cup {SHAPES[s] : s \in ShapeIds} :
    Args(EmptyBoard, [shape |-> shape, x |-> 0, y |-> 0])

\* ret = rotate(arg): first is the argument of the first call, n the number
\* of calls, left the argument as the call leaves it (rotate assigns to
\* nothing: shape[::-1], zip and list(row) build new lists)
CallRotate ==
  /\ pc = "args"
  /\ LET arg == state.piece.shape
         n == IF call = NoCall THEN 0 ELSE call.n
     IN  /\ call' = [fn |-> "rotate", first |-> IF n = 0 THEN arg ELSE call.first,
                     arg |-> arg, left |-> arg, ret |-> rotate(arg), n |-> n + 1]
         /\ state' = [state EXCEPT !.piece.shape = rotate(arg)]
         /\ pc' = IF n + 1 = 4 THEN "done" ELSE "args"
  /\ UNCHANGED <<delay, since, key, run, atOver>>

NextRotate == CallRotate

SpecRotate == InitRotate /\ [][NextRotate]_vars


(***************************************************************************)
(* What the properties are stated with.                                    *)
(***************************************************************************)
\* the board cells <<row, column>> a shape at (x, y) lies on
CellsAt(shape, x, y) == {<<y + rc[1], x + rc[2]>> : rc \in Cells(shape)}

\* a shape at (x, y) has a cell beside the board, below it, or on a filled cell
Hits(b, shape, x, y) ==
  \E cell \in CellsAt(shape, x, y) :
    \/ cell[2] \notin 0..(BOARD_W - 1)
    \/ cell[1] > BOARD_H - 1
    \/ (cell[1] \in 0..(BOARD_H - 1) /\ b[cell[1] + 1][cell[2] + 1] = 1)

\* the quarter turn clockwise: the cell (r, c) of a shape of R rows goes to (c, R - 1 - r)
Turned(shape) ==
  LET R == Len(shape)
      C == Len(shape[1])
  IN  [i \in 1..C |-> [j \in 1..R |-> IF <<R - j, i - 1>> \in Cells(shape) THEN 1 ELSE 0]]

\* the piece in play collides / would collide d rows lower
PieceHits(d) == Hits(state.board, state.piece.shape, state.piece.x, state.piece.y + d)

\* Poll takes this step
PollStep == pc = "poll" /\ ~state.over

\* this step calls lock_piece once
LockStep == state'.locks = state.locks + 1

\* this step leaves the board, the score and the lines alone and calls no lock_piece
Quiet ==
  /\ state'.board = state.board
  /\ state'.score = state.score
  /\ state'.lines = state.lines
  /\ state'.locks = state.locks

\* the number of rows that are full once `cells` are filled in the board b
FullAfter(b, cells) ==
  Cardinality({r \in 0..(BOARD_H - 1) :
     \A c \in 0..(BOARD_W - 1) : b[r + 1][c + 1] = 1 \/ <<r, c>> \in cells})

\* the row offset at which the piece in play comes to rest
Landing ==
  CHOOSE d \in 0..(BOARD_H + 1) : (\A e \in 0..d : ~PieceHits(e)) /\ PieceHits(d + 1)

(***************************************************************************)
(* C1. Once over is true, the board and the piece stay as they were when   *)
(* lock_piece set over, and lock_piece is not called again.                *)
(***************************************************************************)
C1_FrozenAfterOver ==
  atOver.set =>
    /\ state.board = atOver.state.board
    /\ state.piece = atOver.state.piece
    /\ state.locks = atOver.state.locks

(***************************************************************************)
(* C2. After lock_piece set over, score and lines never change again.      *)
(***************************************************************************)
C2_ScoreFrozenAfterOver ==
  atOver.set =>
    /\ state.score = atOver.state.score
    /\ state.lines = atOver.state.lines

(***************************************************************************)
(* C3. A pass of the loop that ends with paused = true leaves the board,   *)
(* the piece, score, lines and over unchanged, whatever the key; in the    *)
(* Paused state the pause key resumes, the delay keys adjust the delay and *)
(* quit exits.                                                             *)
(***************************************************************************)
C3_PausedFrame ==
  [][/\ (PollStep /\ state'.paused) =>
          /\ Quiet
          /\ state'.piece = state.piece
          /\ state'.over = state.over
          /\ pc' \in {"poll", "exited"}
          /\ since' = since
     /\ (PollStep /\ state.paused /\ key' = "p") => (~state'.paused /\ pc' = "gravity")
     /\ (PollStep /\ state.paused /\ key' \in {"+", "="}) =>
          delay' = (IF delay - 2 < 2 THEN 2 ELSE delay - 2)
     /\ (PollStep /\ state.paused /\ key' = "-") => delay' = delay + 2
     /\ (PollStep /\ state.paused /\ key' = "q") =>
          (pc' = "exited" /\ state' = state /\ delay' = delay)
    ]_vars

\* a hard-drop key was read in the Paused state and nothing was locked
C3_Witness ==
  /\ pc = "poll"
  /\ state.paused
  /\ key = "SPACE"
  /\ state.locks = 0

(***************************************************************************)
(* C4. Every lock_piece call adds the number of rows it cleared to lines   *)
(* and 0, 100, 300, 700 or 1500 to score for 0, 1, 2, 3 or 4 cleared rows. *)
(***************************************************************************)
C4_Points(n) ==
  CASE n = 0 -> 0 [] n = 1 -> 100 [] n = 2 -> 300 [] n = 3 -> 700 [] n = 4 -> 1500

C4_LockScore ==
  [][LockStep =>
       LET d == IF pc = "poll" THEN Landing ELSE 0
           n == FullAfter(state.board,
                          CellsAt(state.piece.shape, state.piece.x, state.piece.y + d))
       IN  /\ n \in 0..4
           /\ state'.lines = state.lines + n
           /\ state'.score = state.score + C4_Points(n)
    ]_vars

\* a lock has cleared four rows at once
C4_Witness ==
  /\ state.locks = 1
  /\ state.lines = 4
  /\ state.score = 1500

(***************************************************************************)
(* C5. A left, right, soft-drop or rotate key in the Running state changes *)
(* nothing when the candidate placement collides, and otherwise commits    *)
(* that one field of the piece and nothing else; a rotation keeps x and y, *)
(* and a blocked soft drop does not lock.                                  *)
(***************************************************************************)
C5_Candidate(p, k) ==
  CASE k = "LEFT" -> [p EXCEPT !.x = p.x - 1]
    [] k = "RIGHT" -> [p EXCEPT !.x = p.x + 1]
    [] k = "DOWN" -> [p EXCEPT !.y = p.y + 1]
    [] k = "UP" -> [p EXCEPT !.shape = Turned(p.shape)]

C5_MovesGated ==
  [][(PollStep /\ ~state.paused /\ key' \in {"LEFT", "RIGHT", "DOWN", "UP"}) =>
       LET cand == C5_Candidate(state.piece, key')
       IN  state' = [state EXCEPT !.piece =
                       IF Hits(state.board, cand.shape, cand.x, cand.y)
                       THEN state.piece ELSE cand]
    ]_vars

\* a rotate key was handled on the full stack, where the I piece cannot
\* stand upright: the rotation was rejected
C5_Witness ==
  /\ pc = "gravity"
  /\ key = "UP"
  /\ state.board = Stack(BOARD_H, FALSE)
  /\ state.piece.shape = SHAPES[1]
  /\ Hits(state.board, Turned(state.piece.shape), state.piece.x, state.piece.y)

(***************************************************************************)
(* C6. Only a lock changes the board, score or lines or replaces the       *)
(* piece: a pass with any key but hard-drop, a gravity step of a piece     *)
(* that is free to fall, and the end of the game leave board, score and    *)
(* lines unchanged and keep the piece, moved by at most one step.          *)
(***************************************************************************)
C6_SamePiece ==
  /\ state'.piece.shape \in {state.piece.shape, Turned(state.piece.shape)}
  /\ state'.piece.x \in {state.piece.x - 1, state.piece.x, state.piece.x + 1}
  /\ state'.piece.y \in {state.piece.y, state.piece.y + 1}

C6_OnlyLockChanges ==
  [][/\ ( \/ (PollStep /\ (key' # "SPACE" \/ state'.paused))
          \/ (pc = "gravity" /\ ~PieceHits(1))
          \/ pc = "wait"
          \/ (pc = "poll" /\ state.over) ) => (Quiet /\ C6_SamePiece)
     /\ ~LockStep => (Quiet /\ C6_SamePiece)
    ]_vars

\* before any lock, the first piece has been turned, shifted and lowered
C6_Witness ==
  /\ state.locks = 0
  /\ state.board = EmptyBoard
  /\ state.piece.shape \notin {SHAPES[s] : s \in ShapeIds}
  /\ state.piece.x = 0
  /\ state.piece.y > 5

(***************************************************************************)
(* C7. After every lock the piece is a catalog shape at the centered spawn *)
(* position with y = -1, and the lock sets over exactly when that piece    *)
(* collides with the board as merge and clear_lines left it; no other step *)
(* changes over.                                                           *)
(***************************************************************************)
C7_OverWhenSpawnCollides ==
  [][/\ LockStep =>
          /\ \E s \in 1..7 :
               state'.piece = [shape |-> SHAPES[s],
                               x |-> 10 \div 2 - Len(SHAPES[s][1]) \div 2,
                               y |-> -1]
          /\ state'.over <=>
               \/ state.over
               \/ Hits(state'.board, state'.piece.shape, state'.piece.x, state'.piece.y)
     /\ ~LockStep => state'.over = state.over
    ]_vars

\* the one lock of the run has set over: the piece it spawned collides
C7_Witness ==
  /\ state.locks = 1
  /\ state.over
  /\ PieceHits(0)

(***************************************************************************)
(* C8. clear_lines returns the number of entirely filled rows; the board   *)
(* it leaves has BOARD_H rows of width BOARD_W: that many empty rows on    *)
(* top, then the rows that were not full, in their order; with no full row *)
(* it returns 0 and leaves the board unchanged.                            *)
(***************************************************************************)
C8_NonFull(b) == {r \in 1..BOARD_H : \E c \in 1..BOARD_W : b[r][c] = 0}

C8_ClearLines ==
  (pc = "done" /\ call.fn = "clear_lines") =>
    LET old == call.board
        new == state.board
        n == call.ret
        nonfull == C8_NonFull(old)
    IN  /\ n = BOARD_H - Cardinality(nonfull)
        /\ Len(new) = BOARD_H
        /\ \A r \in 1..BOARD_H :
             /\ Len(new[r]) = BOARD_W
             /\ r <= n => \A c \in 1..BOARD_W : new[r][c] = 0
        \* the k-th row of old that is not full is the row n + k of new
        /\ \A q \in nonfull : new[n + Cardinality({j \in nonfull : j <= q})] = old[q]
        /\ n = 0 => new = old

\* two full rows were cleared below a row that was neither full nor empty
C8_Witness ==
  /\ pc = "done"
  /\ call.fn = "clear_lines"
  /\ call.ret = 2
  /\ \E r \in C8_NonFull(call.board), q \in 1..BOARD_H :
       r < q /\ q \notin C8_NonFull(call.board) /\ call.board[r] # EmptyRow

(***************************************************************************)
(* C9. collides returns true exactly when a cell of the effective shape at *)
(* the effective position is in a column outside 0..BOARD_W - 1, in a row  *)
(* >= BOARD_H, or in a row >= 0 on a filled cell (a cell in a row < 0      *)
(* collides only by its column); an argument that is given, 0 included,    *)
(* replaces the piece's own value, and giving the piece's own values       *)
(* returns what collides(board, piece) returns.                            *)
(***************************************************************************)
C9_Given(opt, own) == IF Cardinality(opt) = 0 THEN own ELSE CHOOSE v \in opt : TRUE

C9_Collides ==
  (pc = "done" /\ call.fn = "collides") =>
    LET p == state.piece
    IN  /\ call.ret <=> Hits(state.board, C9_Given(call.shape, p.shape),
                             C9_Given(call.x, p.x), C9_Given(call.y, p.y))
        /\ call.plain <=> Hits(state.board, p.shape, p.x, p.y)
        /\ (call.x = {p.x} /\ call.y = {p.y} /\ call.shape = {p.shape}) =>
             call.ret = call.plain

\* x = 0 was given for a piece that is not in column 0, and decided the result
C9_Witness ==
  /\ pc = "done"
  /\ call.fn = "collides"
  /\ call.x = {0}
  /\ state.piece.x # 0
  /\ call.y = {}
  /\ call.shape = {}
  /\ call.ret # call.plain

(***************************************************************************)
(* C10. drop_distance of a piece that does not collide.                    *)
(***************************************************************************)
\* C10 as claimed: drop_distance returns d >= 0, the largest offset at
\* which the piece does not collide, also on a board with overhangs.
C10_MaxFreeOffset ==
  ~PieceHits(0) =>
    LET d == drop_distance(state.board, state.piece)
    IN  /\ d >= 0
        /\ ~PieceHits(d)
        /\ \A e \in (d + 1)..(BOARD_H + 1) : PieceHits(e)

\* C10 as amended: drop_distance returns d >= 0, the largest offset such
\* that the piece collides at none of the offsets 0..d: the piece is free on
\* the whole way down to y + d and collides one row lower.
C10_FirstObstruction ==
  ~PieceHits(0) =>
    LET d == drop_distance(state.board, state.piece)
    IN  /\ d >= 0
        /\ \A e \in 0..d : ~PieceHits(e)
        /\ PieceHits(d + 1)

\* under an overhang the piece would fit again, lower than where it lands
C10_Witness ==
  /\ ~PieceHits(0)
  /\ \E e \in 0..(BOARD_H + 1) :
       e > drop_distance(state.board, state.piece) + 1 /\ ~PieceHits(e)

(***************************************************************************)
(* C11. A hard-drop key in the Running state locks the piece once, merged  *)
(* at (x, y + drop_distance): there the piece does not collide, one row    *)
(* lower it does, and the board becomes the old board with the cells of    *)
(* the piece at that position filled (those in a row >= 0) and the full    *)
(* rows cleared.                                                           *)
(***************************************************************************)
\* the board b with the cells `cells` filled
C11_Filled(b, cells) ==
  [r \in 1..BOARD_H |-> [c \in 1..BOARD_W |->
     IF <<r - 1, c - 1>> \in cells THEN 1 ELSE b[r][c]]]

C11_HardDrop ==
  [][(PollStep /\ ~state.paused /\ key' = "SPACE") =>
       LET d == drop_distance(state.board, state.piece)
           cells == CellsAt(state.piece.shape, state.piece.x, state.piece.y + d)
           m == C11_Filled(state.board, cells)
           nonfull == C8_NonFull(m)
           n == BOARD_H - Cardinality(nonfull)
       IN  /\ d >= 0
           /\ ~PieceHits(d)
           /\ PieceHits(d + 1)
           /\ LockStep
           /\ \A r \in 1..n : state'.board[r] = EmptyRow
           /\ \A q \in nonfull :
                state'.board[n + Cardinality({j \in nonfull : j <= q})] = m[q]
    ]_vars

\* the first piece was dropped from above the empty board onto the floor
C11_Witness ==
  /\ pc = "gravity"
  /\ key = "SPACE"
  /\ state.locks = 1
  /\ state.lines = 0
  /\ state.board[BOARD_H] # EmptyRow
  /\ \A r \in 1..(BOARD_H - 2) : state.board[r] = EmptyRow

(***************************************************************************)
(* C12. An increase-speed key ('+' or '=') leaves the delay at             *)
(* max(0.05 s, delay - 0.05 s), so never below 0.05 s, whatever the delay  *)
(* was; a decrease-speed key ('-') adds 0.05 s; a delay key changes        *)
(* nothing in the game state. 0.05 s is two units of 25 ms.                *)
(***************************************************************************)
C12_DelayFloor ==
  [][/\ (PollStep /\ key' \in {"+", "="}) =>
          /\ delay' >= 2
          /\ delay' \in {2, delay - 2}
          /\ delay' >= delay - 2
          /\ state' = state
     /\ (PollStep /\ key' = "-") =>
          /\ delay' = delay + 2
          /\ state' = state
     /\ (PollStep /\ key' \notin {"+", "=", "-"}) => delay' = delay
     /\ ~PollStep => delay' = delay
    ]_vars

\* an increase-speed key was read and the delay is at the floor
C12_Witness ==
  /\ key \in {"+", "="}
  /\ delay = 2
  /\ pc = "gravity"

(***************************************************************************)
(* C13. A quit key, read in the Running or in the Paused state, ends       *)
(* main_loop in that pass: the game state and the delay are left as they   *)
(* were, no gravity step, no lock and no wait for an acknowledgment        *)
(* follow, and nothing happens after the exit.                             *)
(***************************************************************************)
C13_QuitExits ==
  [][/\ (PollStep /\ key' = "q") =>
          /\ pc' = "exited"
          /\ state' = state
          /\ delay' = delay
          /\ since' = since
     /\ pc = "exited" => FALSE
     /\ key = "q" => FALSE
    ]_vars

\* the quit key was read in the Paused state
C13_Witness ==
  /\ pc = "exited"
  /\ key = "q"
  /\ state.paused
  /\ ~state.over

(***************************************************************************)
(* C14. over never goes from true back to false. Once over is true the     *)
(* game is never Paused and no key of the game is read any more: the pass  *)
(* in which over was set ends, the `while` loop is left, the final state   *)
(* is rendered, one key is waited for and main_loop returns, the game      *)
(* state being left as it is from the end of that pass on.                 *)
(***************************************************************************)
C14_OverIsTerminal ==
  [][/\ state.over => state'.over
     /\ state'.over => ~state'.paused
     /\ state.over => key' \in {key, "none"}
     /\ (state.over /\ pc = "poll") =>
          (pc' = "wait" /\ state' = state /\ delay' = delay)
     /\ pc = "wait" => (state.over /\ pc' = "exited" /\ state' = state /\ delay' = delay)
     /\ state.over => pc' \in {"poll", "wait", "exited", "crashed"}
     /\ (state.over /\ pc \in {"wait", "exited"}) => pc' # "poll"
    ]_vars

\* the game was lost and main_loop has returned after the acknowledgment
C14_Witness ==
  /\ state.over
  /\ pc = "exited"
  /\ key # "q"

(***************************************************************************)
(* C15. rotate turns a shape of R rows and C columns into one of C rows    *)
(* and R columns in which the cell (r, c) has gone to (c, R - 1 - r); it   *)
(* leaves its argument as it was; four rotations in a row give the first   *)
(* matrix back, for every catalog shape.                                   *)
(***************************************************************************)
C15_Rotate ==
  call.fn = "rotate" =>
    LET R == Len(call.arg)
        C == Len(call.arg[1])
    IN  /\ Len(call.ret) = C
        /\ \A i \in 1..C : Len(call.ret[i]) = R
        /\ \A r \in 0..(R - 1), c \in 0..(C - 1) :
             call.ret[c + 1][(R - 1 - r) + 1] = call.arg[r + 1][c + 1]
        /\ call.left = call.arg
        /\ state.piece.shape = call.ret
        /\ call.n = 4 => call.ret = call.first

\* the L shape of the catalog has been rotated four times
C15_Witness ==
  /\ call.fn = "rotate"
  /\ call.n = 4
  /\ call.first = SHAPES[7]
  /\ call.arg # call.first
  /\ pc = "done"

(***************************************************************************)
(* C16. drop_distance of a piece just spawned (catalog shape, y = -1) on   *)
(* the empty board.                                                        *)
(***************************************************************************)
\* the board is empty and the piece is as new_piece made it
C16_Spawned ==
  /\ state.board = EmptyBoard
  /\ state.piece.y = -1
  /\ \E s \in 1..7 : state.piece.shape = SHAPES[s]

\* C16 as claimed: drop_distance returns 20 whichever catalog shape was spawned.
C16_AlwaysTwenty ==
  C16_Spawned => drop_distance(state.board, state.piece) = 20

\* C16 as amended: drop_distance returns 21 minus the number of rows of the
\* shape, 20 for the I shape (one row) and 19 for the six shapes of two
\* rows: the lowest row of the piece comes to lie on row 19.
C16_ByHeight ==
  C16_Spawned =>
    LET d == drop_distance(state.board, state.piece)
    IN  /\ d = 21 - Len(state.piece.shape)
        /\ d = IF state.piece.shape = <<<<1, 1, 1, 1>>>> THEN 20 ELSE 19
        /\ state.piece.y + d + Len(state.piece.shape) - 1 = 19

\* the O shape was spawned above the empty board: it falls 19 rows
C16_Witness ==
  /\ C16_Spawned
  /\ state.piece.shape = SHAPES[2]
  /\ drop_distance(state.board, state.piece) = 19

(***************************************************************************)
(* C17. In a pass in which the game is not paused after the input action,  *)
(* whatever the key, the clock is read once: when the time since the last  *)
(* gravity tick is >= delay the tick is reset and the piece moves down one *)
(* row if it does not collide there, and is locked otherwise; when it is   *)
(* < delay the game state and the tick are left alone. In a pass that ends *)
(* paused no gravity step is taken.                                        *)
(***************************************************************************)
\* the gravity step is taken: now - tick was >= delay
C17_Stepped ==
  /\ since' = 0
  /\ IF PieceHits(1)
     THEN LockStep
     ELSE state' = [state EXCEPT !.piece.y = state.piece.y + 1]

\* no gravity step is taken: now - tick is some time < delay, not less than
\* it was at the last reading of the clock
C17_Waited ==
  /\ state' = state
  /\ since' \in since..(delay - 1)

C17_GravityStep ==
  [][/\ pc = "gravity" =>
          /\ since >= delay => C17_Stepped
          /\ C17_Stepped \/ C17_Waited
          /\ state'.locks \in {state.locks, state.locks + 1}
          /\ pc' \in {"poll", "crashed"}
          /\ delay' = delay
     /\ (PollStep /\ key' # "q") => (pc' = "gravity" <=> ~state'.paused) \/ pc' = "crashed"
     /\ PollStep => since' = since
     /\ pc # "gravity" => since' = since
    ]_vars

\* the piece has come down, and the last pass read the clock before the
\* next gravity step was due
C17_Witness ==
  /\ pc = "poll"
  /\ key = "none"
  /\ since > 0
  /\ state.locks = 0
  /\ state.piece.y >= 1

(***************************************************************************)
(* C18. While over is false the piece does not collide: each of its cells  *)
(* is in a column 0..BOARD_W - 1 and in a row < BOARD_H, and none in a row *)
(* >= 0 is on a filled cell of the board. So a lock made while over is     *)
(* false merges the piece into cells of the board that were empty.         *)
(***************************************************************************)
C18_Fits(b, cells) ==
  \A cell \in cells :
    /\ cell[2] >= 0
    /\ cell[2] < BOARD_W
    /\ cell[1] < BOARD_H
    /\ cell[1] >= 0 => b[cell[1] + 1][cell[2] + 1] = 0

C18_PieceNeverCollides ==
  /\ [](~state.over =>
          C18_Fits(state.board,
                   CellsAt(state.piece.shape, state.piece.x, state.piece.y)))
  /\ [][(LockStep /\ ~state.over) =>
          LET d == IF pc = "poll" THEN Landing ELSE 0
          IN  C18_Fits(state.board,
                       CellsAt(state.piece.shape, state.piece.x, state.piece.y + d))
       ]_vars

\* a piece was locked on the ground of the empty board and the game goes
\* on: the piece that followed does not collide
C18_Witness ==
  /\ state.locks = 1
  /\ ~state.over
  /\ pc = "poll"
  /\ state.board[BOARD_H] # EmptyRow
  /\ state.board[1] = EmptyRow
  /\ ~PieceHits(0)

(***************************************************************************)
(* C19. Between locks no row of the board is entirely filled, so every     *)
(* lock_piece call clears at most 4 rows and the lookup                    *)
(* (100, 300, 700, 1500)[cleared - 1] never fails.                         *)
(***************************************************************************)
\* the rows of the board that are entirely filled
C19_FullRows ==
  {r \in 1..BOARD_H : \A c \in 1..BOARD_W : state.board[r][c] = 1}

C19_NoFullRowAtRest ==
  /\ [](C19_FullRows = {} /\ ~state.raised /\ pc # "crashed")
  /\ [][LockStep =>
          /\ state'.lines - state.lines \in 0..4
          /\ state'.lines # state.lines => (state'.lines - state.lines) - 1 \in 0..3
       ]_vars

\* a lock has cleared four rows, the most a piece lies on
C19_Witness ==
  /\ state.lines = 4
  /\ C19_FullRows = {}
  /\ ~state.raised
  /\ pc \in {"poll", "gravity"}

(***************************************************************************)
(* C20. As long as a piece is in play its y never decreases; and while the *)
(* game is neither paused nor quit and gravity steps keep becoming due,    *)
(* the piece in play is locked at last, whatever keys are read in between. *)
(***************************************************************************)
C20_Progress ==
  /\ [][~LockStep => state'.piece.y >= state.piece.y]_vars
  /\ (state.locks = 0) ~> (state.locks > 0 \/ state.paused \/ pc = "exited")

\* the first piece was turned upright, taken to the left wall and locked on
\* the floor of the empty board
C20_Witness ==
  /\ state.locks = 1
  /\ pc = "poll"
  /\ key = "none"
  /\ \A r \in (BOARD_H - 3)..BOARD_H : state.board[r][1] = 1 /\ state.board[r][2] = 0
  /\ state.board[BOARD_H - 4] = EmptyRow

====
